---- MODULE Spec2Model ----
(***************************************************************************)
(* GastoSmart backend: savings goals and contributions.                    *)
(*                                                                         *)
(* The model follows database/goal_operations.py (GoalOperations), the     *)
(* request models of models/goal.py and the handlers of routers/goals.py.  *)
(* Every await on the document store is one atomic step; the code between  *)
(* two awaits runs without interruption (asyncio), so it belongs to the    *)
(* step of the store call that follows it.                                 *)
(*                                                                         *)
(* The goals collection is a function from the ids of the stored          *)
(* documents to the documents; an optional field that is None is a field   *)
(* the record does not have.                                               *)
(*                                                                         *)
(* Amounts are whole numbers (the deployment's currency has no subunit);   *)
(* a progress percentage is an exact fraction <<numerator, denominator>>   *)
(* in lowest terms, standing for the float (current / target) * 100.       *)
(***************************************************************************)
EXTENDS Integers, Sequences, FiniteSets, Bags, TLC

(***************************************************************************)
(* Bounds                                                                  *)
(***************************************************************************)
NumProcs == 2     \* workers serving requests concurrently
MaxCalls == 1     \* requests a behaviour of SpecSeq receives
MaxAmount == 2    \* largest target amount and largest contribution that fits
MaxLogins == 6    \* login requests a behaviour of SpecAuth receives
MaxTime == 16     \* minutes the clock of SpecAuth advances
MaxCodes == 2     \* verification codes a behaviour of SpecMail generates
MaxVerifies == 4  \* verify_code requests a behaviour of SpecMail receives

(***************************************************************************)
(* Program constants                                                       *)
(***************************************************************************)
MAX_CONTRIBUTION == 1000000000
Today == 0
MAX_FAILED_ATTEMPTS == 5
LOCK_MINUTES == 15
CODE_MINUTES == 10
MAX_CODE_ATTEMPTS == 3

Procs == 1..NumProcs
GoalIds == {1, 2}
Users == {"u1", "u2"}
Names == {"n1", "n2"}
Emails == {"e1", "e2", "e3"}
Categories == {"Ahorros", "Viajes"}
GoalStatus == {"active", "completed", "failed", "archived"}
\* Python's None, as a function result, a missing document or a missing response
None == [none |-> TRUE]

VARIABLES
    goals,      \* the goals collection: id -> document
    ledger,     \* the transactions collection: a bag of documents
    next_id,    \* the id insert_one gives the next goal
    pc,         \* where each worker's request stands
    req,        \* the request a worker serves
    goal_doc,   \* the document the worker's method read
    ret,        \* what the GoalOperations method returned
    http,       \* the handler's response
    hist,       \* bookkeeping: what the call has done so far
    pre,        \* bookkeeping: the collections as they were when the call began
    goals0,     \* bookkeeping: the goals collection SpecContrib starts from
    calls,      \* bookkeeping: the requests received so far
    users,      \* the users collection: email -> document
    now,        \* datetime.now(), in minutes
    user_doc,   \* the document each worker's authenticate_user read
    failures,   \* bookkeeping: failed password attempts on each account since
                \* its last successful login or lock expiry
    goal,       \* a Goal instance (models/goal.py) held in memory
    verification_codes, \* the verification_codes collection: _id -> document
    verification_doc,   \* the document each worker's verify_code read
    verified    \* bookkeeping: per verification document, the calls it
                \* validated and the incorrect attempts recorded on it

vars == <<goals, ledger, next_id, pc, req, goal_doc, ret, http, hist, pre, goals0, calls,
          users, now, user_doc, failures, goal, verification_codes, verification_doc,
          verified>>

store == <<goals, ledger, next_id>>

\* the users collection, the clock and what the login calls hold
auth == <<users, now, user_doc, failures>>

\* the verification codes and what the verify_code calls hold
mail == <<verification_codes, verification_doc, verified>>

\* the variables no step of a running call on goals changes
frame == <<pre, goals0, calls, auth, mail, goal>>

(***************************************************************************)
(* Progress arithmetic                                                     *)
(***************************************************************************)
RECURSIVE GCD(_, _)
GCD(a, b) == IF b = 0 THEN a ELSE GCD(b, a % b)

Rat(n, d) == LET g == GCD(n, d) IN <<n \div g, d \div g>>

RatGeq(r, k) == r[1] >= k * r[2]

RatLeq(r, k) == r[1] <= k * r[2]

\* (current / target) * 100
Percentage(current, target) == Rat(current * 100, target)

\* min(progress, 100.0)
MinHundred(r) == IF RatGeq(r, 100) THEN <<100, 1>> ELSE r

(***************************************************************************)
(* Request validation (pydantic models)                                    *)
(***************************************************************************)

\* mutant: the ceiling of validate_amount is not applied
ValidContributionNoCeiling(c) ==
    /\ c.amount > 0
    /\ ~("contribution_date" \in DOMAIN c /\ c.contribution_date > Today)

\* GoalContribution: amount gt=0, validate_amount, validate_contribution_date
ValidContribution(c) ==
    /\ c.amount > 0
    /\ ~(c.amount > MAX_CONTRIBUTION)
    /\ ~("contribution_date" \in DOMAIN c /\ c.contribution_date > Today)

(***************************************************************************)
(* Store queries                                                           *)
(***************************************************************************)

\* mutant: the filter leaves the owner out
MatchesIdOnly(g, uid) == g \in DOMAIN goals

\* filter {"_id": ObjectId(goal_id), "user_id": user_id}
MatchesIdUser(g, uid) == g \in DOMAIN goals /\ goals[g].user_id = uid

\* filter {"user_id": user_id, "is_main": True}
MatchesMain(g, uid) == g \in DOMAIN goals /\ goals[g].user_id = uid /\ goals[g].is_main

\* the document as find_one returns it
Document(g) == [id |-> g, doc |-> goals[g]]

(***************************************************************************)
(* Contribution arithmetic (contribute_to_goal, contribute_to_main_goal)   *)
(***************************************************************************)
RemainingAmount(d) == d.target_amount - d.current_amount


\* mutant: the exact remaining amount is rejected too
ExceedsRemainingOrEqual(d, amount) == amount >= RemainingAmount(d)

\* mutant: the amount is compared with the target, not with what remains
ExceedsTarget(d, amount) == amount > d.target_amount

ExceedsRemaining(d, amount) == amount > RemainingAmount(d)

NewAmount(d, amount) ==
    LET new_amount == d.current_amount + amount
    IN  IF new_amount > d.target_amount THEN d.target_amount ELSE new_amount


\* mutant: the amount is added to the stored amount ($inc), unclamped
ContributionIncrement(stored, d, amount) ==
    LET new_amount == stored.current_amount + amount
        progress == Percentage(new_amount, stored.target_amount)
    IN  [stored EXCEPT !.current_amount = new_amount,
                       !.progress_percentage = MinHundred(progress),
                       !.status = IF RatGeq(progress, 100) THEN "completed" ELSE @]

\* the $set applied by update_one, computed from the document read at lookup
ContributionUpdate(stored, d, amount) ==
    LET new_amount == NewAmount(d, amount)
        progress == Percentage(new_amount, d.target_amount)
    IN  [stored EXCEPT !.current_amount = new_amount,
                       !.progress_percentage = MinHundred(progress),
                       !.status = IF RatGeq(progress, 100) THEN "completed" ELSE @]

\* mutant: the entry records the goal's new total, not the contribution
TransactionDocTotal(uid, gid, d, c, fallback) ==
    [user_id |-> uid,
     type |-> "goal_contribution",
     amount |-> d.current_amount + c.amount,
     category |-> IF "category" \in DOMAIN d THEN d.category ELSE fallback,
     date |-> IF "contribution_date" \in DOMAIN c THEN c.contribution_date ELSE Today,
     goal_id |-> gid,
     goal_name |-> d.name]

\* transaction_doc
TransactionDoc(uid, gid, d, c, fallback) ==
    [user_id |-> uid,
     type |-> "goal_contribution",
     amount |-> c.amount,
     category |-> IF "category" \in DOMAIN d THEN d.category ELSE fallback,
     date |-> IF "contribution_date" \in DOMAIN c THEN c.contribution_date ELSE Today,
     goal_id |-> gid,
     goal_name |-> d.name]

(***************************************************************************)
(* Goal documents                                                          *)
(***************************************************************************)
\* goal_doc of create_goal: status ACTIVE, progress min(current/target*100, 100)
NewGoalDoc(uid, data) ==
    [user_id |-> uid, name |-> data.name, category |-> data.category,
     target_amount |-> data.target_amount, current_amount |-> data.current_amount,
     progress_percentage |->
         MinHundred(IF data.target_amount > 0
                    THEN Percentage(data.current_amount, data.target_amount)
                    ELSE <<0, 1>>),
     status |-> "active", is_main |-> data.is_main]

\* {"$set": update_doc}: the fields of update_doc replace the stored ones
SetFields(stored, update_doc) ==
    [f \in DOMAIN stored |-> IF f \in DOMAIN update_doc THEN update_doc[f] ELSE stored[f]]

\* "Recalcular progreso" of update_goal, from the document it read back
RecalculatedProgress(d) == MinHundred(Percentage(d.current_amount, d.target_amount))

(***************************************************************************)
(* Router (routers/goals.py)                                               *)
(***************************************************************************)
\* the handlers' try/except: a ValueError becomes 400, any other exception
\* 500; the HTTPException(404) a handler raises inside its own try block
\* for a None result is an Exception too
HandlerExcept(exc, internal) ==
    IF exc.type = "ValueError"
    THEN [status |-> 400, detail |-> exc.detail]
    ELSE [status |-> 500, detail |-> internal]

NotFound == [type |-> "HTTPException", status |-> 404, detail |-> "Meta no encontrada"]

\* contribute_to_goal / contribute_to_main_goal handlers
ContributeResponse(result) ==
    IF result = None THEN HandlerExcept(NotFound, "Error al realizar abono") ELSE [status |-> 200, body |-> result]

\* update_goal handler
UpdateResponse(result) ==
    IF result = None THEN HandlerExcept(NotFound, "Error al actualizar meta") ELSE [status |-> 200, body |-> result]

\* create_goal handler: GoalOperations.create_goal raises ValueError on any failure
CreateResponse(result) ==
    IF result = None
    THEN HandlerExcept([type |-> "ValueError", detail |-> "Error al crear meta"],
                       "Error interno del servidor")
    ELSE [status |-> 201, body |-> result]

\* delete_goal handler: no try block around the 404
DeleteResponse(success) ==
    IF success THEN [status |-> 204] ELSE [status |-> 404, detail |-> "Meta no encontrada"]

\* get_goal handler: no try block around the 404
GetResponse(result) ==
    IF result = None THEN [status |-> 404, detail |-> "Meta no encontrada"]
    ELSE [status |-> 200, body |-> result]

\* set_goal_as_main handler: its 404s are raised inside its try block
SetMainResponse(result) ==
    IF result = None THEN HandlerExcept(NotFound, "Error interno del servidor")
    ELSE [status |-> 200, body |-> result]

\* FastAPI rejects a body its model does not validate before the handler runs
ValidationResponse == [status |-> 422, detail |-> "validation"]

(***************************************************************************)
(* Per-call bookkeeping (not program state)                                *)
(***************************************************************************)
NoHist == [lookups |-> 0, wrote |-> FALSE, inserted |-> <<>>, insert_failed |-> FALSE]

\* a request arrives at an idle worker
Begin(p, r, snap) ==
    /\ pc[p] = "idle"
    /\ calls' = calls + 1
    /\ req' = [req EXCEPT ![p] = r]
    /\ pre' = IF snap THEN [goals |-> goals, ledger |-> ledger] ELSE pre
    /\ UNCHANGED <<store, goal_doc, ret, hist, goals0, auth, mail, goal>>

\* the method returns `result`; the handler answers `response`
Finish(p, result, response) ==
    /\ pc' = [pc EXCEPT ![p] = "done"]
    /\ ret' = [ret EXCEPT ![p] = result]
    /\ http' = [http EXCEPT ![p] = response]

IsContribute(r) == r # None /\ r.op \in {"contribute_to_goal", "contribute_to_main_goal"}

(***************************************************************************)
(* POST /{goal_id}/contribute and POST /main-goal/contribute               *)
(***************************************************************************)
\* a request whose body fails validation: 422, the handler never runs
ContributeInvalid(p, uid, c, snap) ==
    /\ ~ValidContribution(c)
    /\ Begin(p, [op |-> "invalid_contribution", user_id |-> uid, contribution |-> c], snap)
    /\ pc' = [pc EXCEPT ![p] = "done"]
    /\ http' = [http EXCEPT ![p] = ValidationResponse]

\* contribute_to_goal(goal_id, user_id, contribution) is called
ContributeToGoalCall(p, uid, gid, c, snap) ==
    /\ ValidContribution(c)
    /\ Begin(p, [op |-> "contribute_to_goal", user_id |-> uid, goal_id |-> gid,
                 contribution |-> c], snap)
    /\ pc' = [pc EXCEPT ![p] = "lookup"]
    /\ UNCHANGED http

\* contribute_to_main_goal(user_id, contribution) is called
ContributeToMainGoalCall(p, uid, c, snap) ==
    /\ ValidContribution(c)
    /\ Begin(p, [op |-> "contribute_to_main_goal", user_id |-> uid, contribution |-> c], snap)
    /\ pc' = [pc EXCEPT ![p] = "lookup"]
    /\ UNCHANGED http

\* raise ValueError(f"El monto del abono (${amount}) excede el monto restante (${remaining})")
ExceedsError(d, amount) ==
    [type |-> "ValueError",
     detail |-> [attempted |-> amount, remaining |-> RemainingAmount(d)]]

\* except Exception as e: logger.error(...); return None
MethodExcept(exc) == None

\* the goals the call's find_one may return
LookupMatches(r) ==
    IF r.op = "contribute_to_goal"
    THEN {g \in GoalIds : g = r.goal_id /\ MatchesIdUser(g, r.user_id)}
    ELSE {g \in GoalIds : MatchesMain(g, r.user_id)}

\* goal_doc = await self.collection.find_one(...); if not goal_doc: return None
ContributeLookup(p) ==
    /\ pc[p] = "lookup"
    /\ IsContribute(req[p])
    /\ hist' = [hist EXCEPT ![p].lookups = @ + 1]
    /\ IF LookupMatches(req[p]) = {}
       THEN /\ Finish(p, None, ContributeResponse(None))
            /\ UNCHANGED goal_doc
       ELSE /\ \E g \in LookupMatches(req[p]) :
                   goal_doc' = [goal_doc EXCEPT ![p] = Document(g)]
            /\ pc' = [pc EXCEPT ![p] = "write"]
            /\ UNCHANGED <<ret, http>>
    /\ UNCHANGED <<store, req, frame>>

\* mutant: a write that matched no document does not end the call
ContributeWriteIgnoresCount(p) ==
    /\ pc[p] = "write"
    /\ IsContribute(req[p])
    /\ LET d == goal_doc[p].doc
           g == goal_doc[p].id
           amount == req[p].contribution.amount
       IN  IF ExceedsRemaining(d, amount)
           THEN /\ Finish(p, MethodExcept(ExceedsError(d, amount)),
                          ContributeResponse(MethodExcept(ExceedsError(d, amount))))
                /\ UNCHANGED <<goals, hist>>
           ELSE /\ goals' = IF MatchesIdUser(g, req[p].user_id)
                            THEN [goals EXCEPT ![g] = ContributionUpdate(@, d, amount)]
                            ELSE goals
                /\ hist' = [hist EXCEPT ![p].wrote = MatchesIdUser(g, req[p].user_id)]
                /\ pc' = [pc EXCEPT ![p] = "ledger"]
                /\ UNCHANGED <<ret, http>>
    /\ UNCHANGED <<ledger, next_id, req, goal_doc, frame>>

\* the capacity check, the new amount and update_one({"_id", "user_id"}, $set)
ContributeWrite(p) ==
    /\ pc[p] = "write"
    /\ IsContribute(req[p])
    /\ LET d == goal_doc[p].doc
           g == goal_doc[p].id
           amount == req[p].contribution.amount
       IN  IF ExceedsRemaining(d, amount)
           THEN \* raise ValueError, caught by the method's own except Exception
                /\ Finish(p, MethodExcept(ExceedsError(d, amount)),
                          ContributeResponse(MethodExcept(ExceedsError(d, amount))))
                /\ UNCHANGED <<goals, hist>>
           ELSE IF MatchesIdUser(g, req[p].user_id)
                THEN /\ goals' = [goals EXCEPT ![g] = ContributionUpdate(@, d, amount)]
                     /\ hist' = [hist EXCEPT ![p].wrote = TRUE]
                     /\ pc' = [pc EXCEPT ![p] = "ledger"]
                     /\ UNCHANGED <<ret, http>>
                ELSE \* result.modified_count == 0
                     /\ Finish(p, None, ContributeResponse(None))
                     /\ UNCHANGED <<goals, hist>>
    /\ UNCHANGED <<ledger, next_id, req, goal_doc, frame>>

\* the entry the call inserts
ContributionEntry(p) ==
    TransactionDoc(req[p].user_id, goal_doc[p].id, goal_doc[p].doc, req[p].contribution,
                   IF req[p].op = "contribute_to_goal" THEN "Meta" ELSE "Meta Principal")

\* await self.transactions_collection.insert_one(transaction_doc)
ContributeLedger(p) ==
    /\ pc[p] = "ledger"
    /\ ledger' = ledger (+) SetToBag({ContributionEntry(p)})
    /\ hist' = [hist EXCEPT ![p].inserted = Append(@, ContributionEntry(p))]
    /\ pc' = [pc EXCEPT ![p] = "refetch"]
    /\ UNCHANGED <<goals, next_id, req, goal_doc, ret, http, frame>>

\* mutant: a failed insert undoes the goal update and fails the call
ContributeLedgerFailsRollsBack(p) ==
    /\ pc[p] = "ledger"
    /\ hist' = [hist EXCEPT ![p].insert_failed = TRUE]
    /\ goals' = IF goal_doc[p].id \in DOMAIN goals
                THEN [goals EXCEPT ![goal_doc[p].id] = goal_doc[p].doc]
                ELSE goals
    /\ Finish(p, None, ContributeResponse(None))
    /\ UNCHANGED <<ledger, next_id, req, goal_doc, frame>>

\* insert_one raises: logged, "No fallar si la transaccion no se registra"
ContributeLedgerFails(p) ==
    /\ pc[p] = "ledger"
    /\ hist' = [hist EXCEPT ![p].insert_failed = TRUE]
    /\ pc' = [pc EXCEPT ![p] = "refetch"]
    /\ UNCHANGED <<store, req, goal_doc, ret, http, frame>>

\* mutant: the method returns the document it read at lookup
ContributeRefetchStale(p) ==
    /\ pc[p] = "refetch"
    /\ Finish(p, goal_doc[p], ContributeResponse(goal_doc[p]))
    /\ UNCHANGED <<store, req, goal_doc, hist, frame>>

\* updated_goal = find_one(...); return self._document_to_response(updated_goal)
\* (_document_to_response(None) raises TypeError: the method returns None)
ContributeRefetch(p) ==
    /\ pc[p] = "refetch"
    /\ IF MatchesIdUser(goal_doc[p].id, req[p].user_id)
       THEN Finish(p, Document(goal_doc[p].id), ContributeResponse(Document(goal_doc[p].id)))
       ELSE Finish(p, None, ContributeResponse(None))
    /\ UNCHANGED <<store, req, goal_doc, hist, frame>>

\* the response is sent; the worker takes the next request
Return(p) ==
    /\ pc[p] = "done"
    /\ pc' = [pc EXCEPT ![p] = "idle"]
    /\ req' = [req EXCEPT ![p] = None]
    /\ goal_doc' = [goal_doc EXCEPT ![p] = None]
    /\ ret' = [ret EXCEPT ![p] = None]
    /\ http' = [http EXCEPT ![p] = None]
    /\ hist' = [hist EXCEPT ![p] = NoHist]
    /\ user_doc' = [user_doc EXCEPT ![p] = None]
    /\ verification_doc' = [verification_doc EXCEPT ![p] = None]
    /\ pre' = None
    /\ UNCHANGED <<store, goals0, calls, users, now, failures, goal, verification_codes,
                   verified>>

(***************************************************************************)
(* POST / (create_goal)                                                    *)
(***************************************************************************)
\* GoalCreate: target_amount gt=0, current_amount ge=0; no validator relates them
ValidCreate(data) == data.target_amount > 0 /\ data.current_amount >= 0

\* create_goal(user_id, goal_data) is called
CreateGoalCall(p, uid, data, snap) ==
    /\ ValidCreate(data)
    /\ next_id + Cardinality({q \in Procs : pc[q] = "c_insert"}) \in GoalIds
    /\ Begin(p, [op |-> "create_goal", user_id |-> uid, data |-> data], snap)
    /\ pc' = [pc EXCEPT ![p] = "c_insert"]
    /\ UNCHANGED http

\* result = await self.collection.insert_one(goal_doc)
CreateInsert(p) ==
    /\ pc[p] = "c_insert"
    /\ goals' = goals @@ (next_id :> NewGoalDoc(req[p].user_id, req[p].data))
    /\ next_id' = next_id + 1
    /\ goal_doc' = [goal_doc EXCEPT ![p] = [id |-> next_id]]
    /\ pc' = [pc EXCEPT ![p] = "c_find"]
    /\ UNCHANGED <<ledger, req, ret, http, hist, frame>>

\* created_goal = find_one({"_id": result.inserted_id}); return its response
\* (_document_to_response(None) raises; create_goal re-raises it as ValueError)
CreateFind(p) ==
    /\ pc[p] = "c_find"
    /\ IF goal_doc[p].id \in DOMAIN goals
       THEN Finish(p, Document(goal_doc[p].id), CreateResponse(Document(goal_doc[p].id)))
       ELSE Finish(p, None, CreateResponse(None))
    /\ UNCHANGED <<store, req, goal_doc, hist, frame>>

(***************************************************************************)
(* PUT /{goal_id} (update_goal)                                            *)
(***************************************************************************)
\* GoalUpdate: target_amount gt=0, current_amount ge=0, when given
ValidUpdate(data) ==
    /\ "target_amount" \in DOMAIN data => data.target_amount > 0
    /\ "current_amount" \in DOMAIN data => data.current_amount >= 0

\* update_goal(goal_id, user_id, update_data) is called
UpdateGoalCall(p, uid, gid, data, snap) ==
    /\ ValidUpdate(data)
    /\ Begin(p, [op |-> "update_goal", user_id |-> uid, goal_id |-> gid, data |-> data], snap)
    /\ pc' = [pc EXCEPT ![p] = "u_set"]
    /\ UNCHANGED http

\* update_one({"_id", "user_id"}, {"$set": update_doc}); updated_at is always
\* in update_doc, so a matched document is a modified one
UpdateSet(p) ==
    /\ pc[p] = "u_set"
    /\ IF MatchesIdUser(req[p].goal_id, req[p].user_id)
       THEN /\ goals' = [goals EXCEPT ![req[p].goal_id] = SetFields(@, req[p].data)]
            /\ pc' = [pc EXCEPT ![p] = "u_find"]
            /\ UNCHANGED <<ret, http>>
       ELSE /\ Finish(p, None, UpdateResponse(None))
            /\ UNCHANGED goals
    /\ UNCHANGED <<ledger, next_id, req, goal_doc, hist, frame>>

\* updated_goal = find_one({"_id", "user_id"})
UpdateFind(p) ==
    /\ pc[p] = "u_find"
    /\ IF MatchesIdUser(req[p].goal_id, req[p].user_id)
       THEN /\ goal_doc' = [goal_doc EXCEPT ![p] = Document(req[p].goal_id)]
            /\ pc' = [pc EXCEPT ![p] = "u_progress"]
            /\ UNCHANGED <<ret, http>>
       ELSE \* _document_to_response(None) raises: return None
            /\ Finish(p, None, UpdateResponse(None))
            /\ UNCHANGED goal_doc
    /\ UNCHANGED <<store, req, hist, frame>>

\* update_one({"_id"}, {"$set": {"progress_percentage": ...}}) and the return
UpdateProgress(p) ==
    /\ pc[p] = "u_progress"
    /\ LET g == goal_doc[p].id
           progress == RecalculatedProgress(goal_doc[p].doc)
           updated_goal == [id |-> g,
                            doc |-> [goal_doc[p].doc EXCEPT !.progress_percentage = progress]]
       IN  /\ goals' = IF g \in DOMAIN goals
                       THEN [goals EXCEPT ![g].progress_percentage = progress]
                       ELSE goals
           /\ Finish(p, updated_goal, UpdateResponse(updated_goal))
    /\ UNCHANGED <<ledger, next_id, req, goal_doc, hist, frame>>

(***************************************************************************)
(* DELETE /{goal_id} (delete_goal)                                         *)
(***************************************************************************)
DeleteGoalCall(p, uid, gid, snap) ==
    /\ Begin(p, [op |-> "delete_goal", user_id |-> uid, goal_id |-> gid], snap)
    /\ pc' = [pc EXCEPT ![p] = "d_delete"]
    /\ UNCHANGED http

\* delete_one({"_id", "user_id"}); return result.deleted_count > 0
DeleteOne(p) ==
    /\ pc[p] = "d_delete"
    /\ LET g == req[p].goal_id
           found == MatchesIdUser(g, req[p].user_id)
       IN  /\ goals' = IF found THEN [h \in DOMAIN goals \ {g} |-> goals[h]] ELSE goals
           /\ pc' = [pc EXCEPT ![p] = "done"]
           /\ ret' = [ret EXCEPT ![p] = [deleted |-> found]]
           /\ http' = [http EXCEPT ![p] = DeleteResponse(found)]
    /\ UNCHANGED <<ledger, next_id, req, goal_doc, hist, frame>>

(***************************************************************************)
(* GET /{goal_id} (get_goal_by_id)                                         *)
(***************************************************************************)
GetGoalCall(p, uid, gid, snap) ==
    /\ Begin(p, [op |-> "get_goal_by_id", user_id |-> uid, goal_id |-> gid], snap)
    /\ pc' = [pc EXCEPT ![p] = "g_find"]
    /\ UNCHANGED http

\* find_one({"_id", "user_id"}); the response of the document, or None
GetGoalFind(p) ==
    /\ pc[p] = "g_find"
    /\ IF MatchesIdUser(req[p].goal_id, req[p].user_id)
       THEN Finish(p, Document(req[p].goal_id), GetResponse(Document(req[p].goal_id)))
       ELSE Finish(p, None, GetResponse(None))
    /\ UNCHANGED <<store, req, goal_doc, hist, frame>>

(***************************************************************************)
(* POST /{goal_id}/set-main (set_goal_as_main)                             *)
(***************************************************************************)
SetMainCall(p, uid, gid, snap) ==
    /\ Begin(p, [op |-> "set_goal_as_main", user_id |-> uid, goal_id |-> gid], snap)
    /\ pc' = [pc EXCEPT ![p] = "m_clear"]
    /\ UNCHANGED http

\* mutant: the user's main goals are not cleared
SetMainKeepsOthers(p) ==
    /\ pc[p] = "m_clear"
    /\ pc' = [pc EXCEPT ![p] = "m_set"]
    /\ UNCHANGED <<store, req, goal_doc, ret, http, hist, frame>>

\* update_many({"user_id", "is_main": True}, {"$set": {"is_main": False}})
SetMainClear(p) ==
    /\ pc[p] = "m_clear"
    /\ goals' = [g \in DOMAIN goals |->
                    IF MatchesMain(g, req[p].user_id)
                    THEN [goals[g] EXCEPT !.is_main = FALSE]
                    ELSE goals[g]]
    /\ pc' = [pc EXCEPT ![p] = "m_set"]
    /\ UNCHANGED <<ledger, next_id, req, goal_doc, ret, http, hist, frame>>

\* update_one({"_id", "user_id"}, {"$set": {"is_main": True}});
\* modified_count == 0 raises the 404 that the handler's except turns into 500
SetMainSet(p) ==
    /\ pc[p] = "m_set"
    /\ IF MatchesIdUser(req[p].goal_id, req[p].user_id)
       THEN /\ goals' = [goals EXCEPT ![req[p].goal_id].is_main = TRUE]
            /\ pc' = [pc EXCEPT ![p] = "m_find"]
            /\ UNCHANGED <<ret, http>>
       ELSE /\ Finish(p, None, SetMainResponse(None))
            /\ UNCHANGED goals
    /\ UNCHANGED <<ledger, next_id, req, goal_doc, hist, frame>>

\* updated_goal = find_one({"_id", "user_id"}); return its response
SetMainFind(p) ==
    /\ pc[p] = "m_find"
    /\ IF MatchesIdUser(req[p].goal_id, req[p].user_id)
       THEN Finish(p, Document(req[p].goal_id), SetMainResponse(Document(req[p].goal_id)))
       ELSE Finish(p, None, SetMainResponse(None))
    /\ UNCHANGED <<store, req, goal_doc, hist, frame>>

(***************************************************************************)
(* POST /login (login_user, UserOperations.authenticate_user)              *)
(*                                                                         *)
(* A locked_until that is None is a field the document does not have.      *)
(***************************************************************************)
\* login_user: no user -> 401 (re-raised as it is), ValueError -> 403
LoginResponse(result) ==
    IF result = None THEN [status |-> 401, detail |-> "Credenciales invalidas"]
    ELSE IF "type" \in DOMAIN result /\ result.type = "ValueError"
    THEN [status |-> 403, detail |-> result.detail]
    ELSE [status |-> 200, body |-> result]

\* locked_until and locked_until > datetime.now()
LockedAt(doc, t) == "locked_until" \in DOMAIN doc /\ doc.locked_until > t

\* {"$set": {"failed_login_attempts": 0, "locked_until": None}}
Unlocked(doc) == [is_active |-> doc.is_active, failed_login_attempts |-> 0]

\* a login request arrives; the body carries a password that is the
\* account's or is not
AuthenticateCall(p, email, password_valid) ==
    /\ pc[p] = "idle"
    /\ calls' = calls + 1
    /\ req' = [req EXCEPT ![p] = [op |-> "authenticate_user", email |-> email,
                                  password_valid |-> password_valid]]
    /\ pc' = [pc EXCEPT ![p] = "a_find"]
    /\ UNCHANGED <<store, goal_doc, ret, http, hist, pre, goals0, auth, mail, goal>>

\* user_doc = find_one({"email"}); unknown and inactive users get None; a lock
\* that has not expired raises ValueError; an expired one is cleared first
AuthFind(p) ==
    /\ pc[p] = "a_find"
    /\ IF req[p].email \notin DOMAIN users
       THEN /\ Finish(p, None, LoginResponse(None))
            /\ UNCHANGED user_doc
       ELSE LET doc == users[req[p].email]
            IN  /\ user_doc' = [user_doc EXCEPT ![p] = doc]
                /\ IF ~doc.is_active
                   THEN Finish(p, None, LoginResponse(None))
                   ELSE IF LockedAt(doc, now)
                   THEN Finish(p, [type |-> "ValueError", detail |-> "Cuenta bloqueada"],
                               LoginResponse([type |-> "ValueError",
                                              detail |-> "Cuenta bloqueada"]))
                   ELSE /\ pc' = [pc EXCEPT ![p] =
                                     IF "locked_until" \in DOMAIN doc
                                     THEN "a_clear" ELSE "a_verify"]
                        /\ UNCHANGED <<ret, http>>
    /\ UNCHANGED <<store, req, goal_doc, hist, pre, goals0, calls, users, now, failures,
                   mail, goal>>

\* "El bloqueo expiro, limpiar": update_one({"_id"}, $set locked_until None,
\* failed_login_attempts 0), and the same in the local user_doc
AuthClearLock(p) ==
    /\ pc[p] = "a_clear"
    /\ users' = IF req[p].email \in DOMAIN users
                THEN [users EXCEPT ![req[p].email] = Unlocked(@)]
                ELSE users
    /\ user_doc' = [user_doc EXCEPT ![p] = Unlocked(@)]
    /\ failures' = [failures EXCEPT ![req[p].email] = 0]
    /\ pc' = [pc EXCEPT ![p] = "a_verify"]
    /\ UNCHANGED <<store, req, goal_doc, ret, http, hist, pre, goals0, calls, now,
                   mail, goal>>

\* _verify_password and the update_one that follows it: a valid password
\* resets the counter and the lock; an invalid one stores the counter read at
\* find_one plus one, and from MAX_FAILED_ATTEMPTS on the lock as well
AuthVerify(p) ==
    /\ pc[p] = "a_verify"
    /\ LET email == req[p].email
           failed_attempts == user_doc[p].failed_login_attempts + 1
           locked == [type |-> "ValueError", detail |-> "Has superado el maximo de intentos"]
       IN  IF req[p].password_valid
           THEN /\ users' = [users EXCEPT ![email] = Unlocked(@)]
                /\ failures' = [failures EXCEPT ![email] = 0]
                /\ Finish(p, [email |-> email], LoginResponse([email |-> email]))
           ELSE /\ failures' = [failures EXCEPT ![email] = @ + 1]
                /\ IF failed_attempts >= MAX_FAILED_ATTEMPTS
                   THEN /\ users' = [users EXCEPT ![email] =
                                        [is_active |-> @.is_active,
                                         failed_login_attempts |-> failed_attempts,
                                         locked_until |-> now + LOCK_MINUTES]]
                        /\ Finish(p, locked, LoginResponse(locked))
                   ELSE /\ users' = [users EXCEPT ![email].failed_login_attempts =
                                                      failed_attempts]
                        /\ Finish(p, None, LoginResponse(None))
    /\ UNCHANGED <<store, req, goal_doc, hist, pre, goals0, calls, now, user_doc,
                   mail, goal>>

\* time passes
Tick(dt) ==
    /\ now + dt <= MaxTime
    /\ now' = now + dt
    /\ UNCHANGED <<store, pc, req, goal_doc, ret, http, hist, pre, goals0, calls,
                   users, user_doc, failures, mail, goal>>

(***************************************************************************)
(* Inputs                                                                  *)
(***************************************************************************)
\* request bodies the GoalContribution model accepts
Contributions ==
    [amount : 1..MaxAmount] \cup {[amount |-> MAX_CONTRIBUTION]}
    \cup {[amount |-> 1, contribution_date |-> Today - 1]}

\* request bodies the GoalContribution model rejects
BadContributions ==
    [amount : {-1, 0, MAX_CONTRIBUTION + 1}]
    \cup {[amount |-> 1, contribution_date |-> Today + 1]}

\* request bodies as they arrive
AnyContributions == Contributions \cup BadContributions

\* GoalCreate bodies
CreateBodies ==
    [name : {"n1"}, category : {"Ahorros"}, target_amount : 1..MaxAmount,
     current_amount : 0..(MaxAmount + 1), is_main : BOOLEAN]

\* GoalUpdate bodies: the fields that are not None
UpdateBodies ==
    [name : {"n2"}] \cup [category : {"Viajes"}] \cup [target_amount : 1..MaxAmount]
    \cup [current_amount : 0..(MaxAmount + 1)] \cup [status : GoalStatus]
    \cup [is_main : BOOLEAN]

\* the accounts: e1 is active, e2 is not; nobody registered e3
InitialUsers ==
    ("e1" :> [is_active |-> TRUE, failed_login_attempts |-> 0])
    @@ ("e2" :> [is_active |-> FALSE, failed_login_attempts |-> 0])

\* every worker idle, the accounts as registered, nothing else in memory
InitCalls ==
    /\ pc = [p \in Procs |-> "idle"]
    /\ req = [p \in Procs |-> None]
    /\ goal_doc = [p \in Procs |-> None]
    /\ ret = [p \in Procs |-> None]
    /\ http = [p \in Procs |-> None]
    /\ hist = [p \in Procs |-> NoHist]
    /\ pre = None
    /\ calls = 0
    /\ users = InitialUsers
    /\ now = 0
    /\ user_doc = [p \in Procs |-> None]
    /\ failures = [e \in DOMAIN InitialUsers |-> 0]
    /\ verification_doc = [p \in Procs |-> None]

InitProcs ==
    /\ InitCalls
    /\ goal = None
    /\ verification_codes = <<>>
    /\ verified = <<>>

(***************************************************************************)
(* Stored goals a server may find in its database when it starts: each is  *)
(* a document create_goal, update_goal and the contribute methods produce  *)
(* (create_goal accepts current_amount > target_amount, update_goal sets   *)
(* any status)                                                             *)
(***************************************************************************)
StoredGoal(uid, target, current, status, main) ==
    [NewGoalDoc(uid, [name |-> "n1", category |-> "Ahorros", target_amount |-> target,
                      current_amount |-> current, is_main |-> main])
     EXCEPT !.status = status]

\* goal 1: any goal of user u1
SeedGoals ==
    {StoredGoal("u1", t, c, s, m) :
        t \in 1..MaxAmount, c \in 0..MaxAmount, s \in GoalStatus, m \in BOOLEAN}

\* goal 2: absent, the main goal of another user, or a second main goal of u1
OtherGoals ==
    {StoredGoal("u2", MaxAmount, 0, "active", TRUE),
     StoredGoal("u1", MaxAmount, 1, "active", TRUE)}

SeedStores ==
    {<<>>} \cup {(1 :> g) : g \in SeedGoals}
    \cup {(1 :> g) @@ (2 :> h) : g \in SeedGoals, h \in OtherGoals}

(***************************************************************************)
(* SpecSeq: one worker; every call runs to completion before the next      *)
(***************************************************************************)
InitSeq ==
    /\ goals \in SeedStores
    /\ goals0 = <<>>
    /\ ledger = EmptyBag
    /\ next_id = Cardinality(DOMAIN goals) + 1
    /\ InitProcs

NextSeq ==
    \E p \in {1} :
        \/ calls < MaxCalls /\ \E u \in Users, d \in CreateBodies : CreateGoalCall(p, u, d, TRUE)
        \/ CreateInsert(p)
        \/ CreateFind(p)
        \/ calls < MaxCalls /\ \E u \in Users, g \in GoalIds, d \in UpdateBodies :
                                   UpdateGoalCall(p, u, g, d, TRUE)
        \/ UpdateSet(p)
        \/ UpdateFind(p)
        \/ UpdateProgress(p)
        \/ calls < MaxCalls /\ \E u \in Users, g \in GoalIds : DeleteGoalCall(p, u, g, TRUE)
        \/ DeleteOne(p)
        \/ calls < MaxCalls /\ \E u \in Users, c \in AnyContributions :
                                   ContributeInvalid(p, u, c, TRUE)
        \/ calls < MaxCalls /\ \E u \in Users, g \in GoalIds, c \in AnyContributions :
                                   ContributeToGoalCall(p, u, g, c, TRUE)
        \/ calls < MaxCalls /\ \E u \in Users, c \in AnyContributions :
                                   ContributeToMainGoalCall(p, u, c, TRUE)
        \/ ContributeLookup(p)
        \/ ContributeWrite(p)
        \/ ContributeLedger(p)
        \/ ContributeLedgerFails(p)
        \/ ContributeRefetch(p)
        \/ calls < MaxCalls /\ \E u \in Users, g \in GoalIds : SetMainCall(p, u, g, TRUE)
        \/ SetMainClear(p)
        \/ SetMainSet(p)
        \/ SetMainFind(p)
        \/ Return(p)

SpecSeq == InitSeq /\ [][NextSeq]_vars

(***************************************************************************)
(* SpecContrib: every worker serves one contribute call, all against one   *)
(* stored goal of user u1 that is the user's main goal                     *)
(***************************************************************************)
InitContrib ==
    /\ \E current \in 0..(MaxAmount + 1) :
          goals = (1 :> StoredGoal("u1", MaxAmount + 1, current,
                                   IF current = MaxAmount + 1 THEN "completed" ELSE "active",
                                   TRUE))
    /\ goals0 = goals
    /\ ledger = EmptyBag
    /\ next_id = 2
    /\ InitProcs

NextContrib ==
    \E p \in Procs :
        \/ \E c \in [amount : 1..MaxAmount] : ContributeToGoalCall(p, "u1", 1, c, FALSE)
        \/ \E c \in [amount : 1..MaxAmount] : ContributeToMainGoalCall(p, "u1", c, FALSE)
        \/ ContributeLookup(p)
        \/ ContributeWrite(p)
        \/ ContributeLedger(p)
        \/ ContributeLedgerFails(p)
        \/ ContributeRefetch(p)

SpecContrib == InitContrib /\ [][NextContrib]_vars

(***************************************************************************)
(* Spec: two workers, each serving one request of user u1 (any operation), *)
(* concurrently, over a database holding the user's main goal              *)
(***************************************************************************)
Workers == {p \in Procs : p <= 2}

Init ==
    /\ \E current \in 0..(MaxAmount - 1) :
          goals = (1 :> StoredGoal("u1", MaxAmount, current, "active", TRUE))
    /\ goals0 = goals
    /\ ledger = EmptyBag
    /\ next_id = 2
    /\ InitProcs

\* GoalUpdate bodies of the concurrent requests
RaceUpdates ==
    [name : Names \ {"n1"}] \cup [category : Categories \ {"Ahorros"}]
    \cup [target_amount : 1..MaxAmount] \cup [is_main : {FALSE}]

Next ==
    \E p \in Workers :
        \/ \E d \in [name : {"n2"}, category : {"Viajes"}, target_amount : {MaxAmount},
                     current_amount : {0}, is_main : {TRUE}] :
              CreateGoalCall(p, "u1", d, FALSE)
        \/ CreateInsert(p)
        \/ CreateFind(p)
        \/ \E d \in RaceUpdates : UpdateGoalCall(p, "u1", 1, d, FALSE)
        \/ UpdateSet(p)
        \/ UpdateFind(p)
        \/ UpdateProgress(p)
        \/ DeleteGoalCall(p, "u1", 1, FALSE)
        \/ DeleteOne(p)
        \/ \E c \in [amount : 1..MaxAmount] : ContributeToGoalCall(p, "u1", 1, c, FALSE)
        \/ \E c \in [amount : 1..MaxAmount] : ContributeToMainGoalCall(p, "u1", c, FALSE)
        \/ ContributeLookup(p)
        \/ ContributeWrite(p)
        \/ ContributeLedger(p)
        \/ ContributeLedgerFails(p)
        \/ ContributeRefetch(p)

Spec == Init /\ [][Next]_vars

(***************************************************************************)
(* SpecPair: two calls, the second one starting after the first returned.  *)
(* The database holds goal 1 of user u1 and goal 2 of either user.         *)
(***************************************************************************)
InitTwoGoals ==
    /\ \E c1, c2 \in 0..(MaxAmount - 1), m1, m2 \in BOOLEAN, u \in Users :
          goals = (1 :> StoredGoal("u1", MaxAmount, c1, "active", m1))
                  @@ (2 :> StoredGoal(u, MaxAmount, c2, "active", m2))
    /\ goals0 = goals
    /\ ledger = EmptyBag
    /\ next_id = 3
    /\ InitProcs

NextPair ==
    \/ \E u \in Users, g \in GoalIds : SetMainCall(1, u, g, TRUE)
    \/ \E u \in Users, g \in GoalIds, c \in [amount : 1..MaxAmount] :
          ContributeToGoalCall(1, u, g, c, TRUE)
    \/ \E u \in Users, c \in [amount : 1..MaxAmount] :
          pc[1] = "done" /\ ContributeToMainGoalCall(2, u, c, TRUE)
    \/ \E u \in Users, g \in GoalIds : pc[1] = "done" /\ GetGoalCall(2, u, g, TRUE)
    \/ \E p \in Workers :
          \/ SetMainClear(p)
          \/ SetMainSet(p)
          \/ SetMainFind(p)
          \/ ContributeLookup(p)
          \/ ContributeWrite(p)
          \/ ContributeLedger(p)
          \/ ContributeLedgerFails(p)
          \/ ContributeRefetch(p)
          \/ GetGoalFind(p)

SpecPair == InitTwoGoals /\ [][NextPair]_vars

(***************************************************************************)
(* SpecMain: concurrent set_goal_as_main calls of user u1                  *)
(***************************************************************************)
NextMain ==
    \E p \in Procs :
        \/ \E g \in GoalIds : SetMainCall(p, "u1", g, FALSE)
        \/ SetMainClear(p)
        \/ SetMainSet(p)
        \/ SetMainFind(p)

SpecMain == InitTwoGoals /\ [][NextMain]_vars

(***************************************************************************)
(* SpecAuth: the workers serve login requests while time passes            *)
(***************************************************************************)
InitAuth ==
    /\ goals = <<>>
    /\ goals0 = <<>>
    /\ ledger = EmptyBag
    /\ next_id = 1
    /\ InitProcs

NextAuth ==
    \/ \E p \in Workers :
          \/ calls < MaxLogins /\ \E e \in Emails, v \in BOOLEAN : AuthenticateCall(p, e, v)
          \/ AuthFind(p)
          \/ AuthClearLock(p)
          \/ AuthVerify(p)
          \/ Return(p)
    \/ \E dt \in {1, LOCK_MINUTES} : Tick(dt)

SpecAuth == InitAuth /\ [][NextAuth]_vars

(***************************************************************************)
(* Goal.calculate_progress and Goal.update_progress (models/goal.py)       *)
(***************************************************************************)
\* min((current_amount / target_amount) * 100, 100.0), and 0.0 for a zero target
calculate_progress(self) ==
    IF self.target_amount = 0 THEN <<0, 1>>
    ELSE MinHundred(Percentage(self.current_amount, self.target_amount))

\* mutant: a goal whose target date is today fails as well
update_progress_due_today(self) ==
    LET progress == calculate_progress(self)
    IN  [self EXCEPT !.progress_percentage = progress,
                     !.status = IF RatGeq(progress, 100) THEN "completed"
                                ELSE IF self.target_date <= Today /\ self.status = "active"
                                THEN "failed"
                                ELSE @]

\* the instance after update_progress(): progress recomputed, then completed
\* from 100 on, else failed when the date has passed and the goal is active
update_progress(self) ==
    LET progress == calculate_progress(self)
    IN  [self EXCEPT !.progress_percentage = progress,
                     !.status = IF RatGeq(progress, 100) THEN "completed"
                                ELSE IF self.target_date < Today /\ self.status = "active"
                                THEN "failed"
                                ELSE @]

\* Goal instances: built while their target date was in the future (the
\* validators run at construction only), read on date.today() = Today
GoalInstances ==
    [target_amount : 1..(MaxAmount + 1), current_amount : 0..(MaxAmount + 1),
     target_date : {Today - 1, Today, Today + 1}, status : GoalStatus,
     progress_percentage : {<<0, 1>>, <<100, 1>>}]

\* goal.update_progress()
GoalUpdateProgress ==
    /\ goal # None
    /\ pre = None
    /\ pre' = goal
    /\ goal' = update_progress(goal)
    /\ UNCHANGED <<store, pc, req, goal_doc, ret, http, hist, goals0, calls, auth, mail>>

\* goal.current_amount = amount: pydantic does not validate an assignment
GoalSetCurrentAmount(amount) ==
    /\ goal # None
    /\ goal' = [goal EXCEPT !.current_amount = amount]
    /\ pre' = None
    /\ UNCHANGED <<store, pc, req, goal_doc, ret, http, hist, goals0, calls, auth, mail>>

(***************************************************************************)
(* SpecGoal: update_progress applied to a Goal instance                    *)
(***************************************************************************)
InitGoal ==
    /\ goals = <<>>
    /\ goals0 = <<>>
    /\ ledger = EmptyBag
    /\ next_id = 1
    /\ InitCalls
    /\ goal \in GoalInstances
    /\ verification_codes = <<>>
    /\ verified = <<>>

NextGoal ==
    \/ GoalUpdateProgress
    \/ \E amount \in 0..(MaxAmount + 1) : GoalSetCurrentAmount(amount)

SpecGoal == InitGoal /\ [][NextGoal]_vars

(***************************************************************************)
(* GET /stats/summary (get_goal_stats)                                     *)
(***************************************************************************)
RatAdd(a, b) == Rat(a[1] * b[2] + b[1] * a[2], a[2] * b[2])

RatTimes(r, k) == Rat(r[1] * k, r[2])

RatOver(r, k) == Rat(r[1], r[2] * k)

\* {"$sum": "$<field>"} over the documents ids of gs
RECURSIVE SumField(_, _, _)
SumField(gs, ids, f) ==
    IF ids = {} THEN 0
    ELSE LET g == CHOOSE x \in ids : TRUE
         IN  gs[g][f] + SumField(gs, ids \ {g}, f)

\* the sum {"$avg": "$progress_percentage"} divides by the count
RECURSIVE SumProgress(_, _)
SumProgress(gs, ids) ==
    IF ids = {} THEN <<0, 1>>
    ELSE LET g == CHOOSE x \in ids : TRUE
         IN  RatAdd(gs[g].progress_percentage, SumProgress(gs, ids \ {g}))

\* {"$match": {"user_id"}} then {"$group": {"_id": "$status", ...}}: one
\* result per status that some goal of the user has
Aggregate(gs, uid) ==
    LET group(st) == {g \in DOMAIN gs : gs[g].user_id = uid /\ gs[g].status = st}
    IN  [st \in {x \in GoalStatus : group(x) # {}} |->
            [count |-> Cardinality(group(st)),
             total_current |-> SumField(gs, group(st), "current_amount"),
             total_target |-> SumField(gs, group(st), "target_amount"),
             avg_progress |-> RatOver(SumProgress(gs, group(st)), Cardinality(group(st)))]]

\* sum(r[f] for r in results)
RECURSIVE SumResults(_, _, _)
SumResults(results, sts, f) ==
    IF sts = {} THEN 0
    ELSE LET st == CHOOSE x \in sts : TRUE
         IN  results[st][f] + SumResults(results, sts \ {st}, f)

\* sum(r["avg_progress"] * r["count"] for r in results)
RECURSIVE TotalProgress(_, _)
TotalProgress(results, sts) ==
    IF sts = {} THEN <<0, 1>>
    ELSE LET st == CHOOSE x \in sts : TRUE
         IN  RatAdd(RatTimes(results[st].avg_progress, results[st].count),
                    TotalProgress(results, sts \ {st}))

\* "Procesar resultados": the GoalStats built from the aggregation results;
\* total_goals_count adds the active, completed and failed counts
GoalStats(results) ==
    LET count(st) == IF st \in DOMAIN results THEN results[st].count ELSE 0
        total_goals_count == count("active") + count("completed") + count("failed")
    IN  [total_saved |-> SumResults(results, DOMAIN results, "total_current"),
         active_goals_count |-> count("active"),
         completed_goals_count |-> count("completed"),
         failed_goals_count |-> count("failed"),
         total_goals_count |-> total_goals_count,
         average_progress |->
             IF total_goals_count > 0
             THEN RatOver(TotalProgress(results, DOMAIN results), total_goals_count)
             ELSE <<0, 1>>,
         total_target_amount |-> SumResults(results, DOMAIN results, "total_target")]

\* get_goal_stats handler: the stats as the body
StatsResponse(result) == [status |-> 200, body |-> result]

GetGoalStatsCall(p, uid, snap) ==
    /\ Begin(p, [op |-> "get_goal_stats", user_id |-> uid], snap)
    /\ pc' = [pc EXCEPT ![p] = "s_aggregate"]
    /\ UNCHANGED http

\* results = aggregate(pipeline).to_list(); the stats are computed from them
GetGoalStatsAggregate(p) ==
    /\ pc[p] = "s_aggregate"
    /\ LET stats == GoalStats(Aggregate(goals, req[p].user_id))
       IN  Finish(p, stats, StatsResponse(stats))
    /\ UNCHANGED <<store, req, goal_doc, hist, frame>>

(***************************************************************************)
(* SpecStats: one worker serves a statistics request                       *)
(***************************************************************************)
NextStats ==
    \E p \in {1} :
        \/ calls < MaxCalls /\ \E u \in Users : GetGoalStatsCall(p, u, TRUE)
        \/ GetGoalStatsAggregate(p)
        \/ Return(p)

SpecStats == InitSeq /\ [][NextStats]_vars

(***************************************************************************)
(* EmailService.generate_verification_code and EmailService.verify_code    *)
(***************************************************************************)
\* the six digits random.choices draws
Codes == {"111111", "222222"}

Purposes == {"password_recovery"}

\* verify_code handler: 200 with the result when valid, else 400
VerifyResponse(result) ==
    IF result.valid THEN [status |-> 200, body |-> result]
    ELSE [status |-> 400, detail |-> result.message]

\* insert_one(verification_doc): a fresh code that expires in ten minutes
GenerateVerificationCode(email, purpose, code) ==
    /\ Len(verification_codes) < MaxCodes
    /\ verification_codes' =
           Append(verification_codes,
                  [email |-> email, code |-> code, purpose |-> purpose,
                   created_at |-> now, expires_at |-> now + CODE_MINUTES,
                   used |-> FALSE, attempts |-> 0])
    /\ verified' = Append(verified, [valid |-> 0, wrong |-> 0])
    /\ UNCHANGED <<store, pc, req, goal_doc, ret, http, hist, pre, goals0, calls, auth,
                   verification_doc, goal>>

VerifyCodeCall(p, email, code, purpose) ==
    /\ Begin(p, [op |-> "verify_code", email |-> email, code |-> code,
                 purpose |-> purpose], FALSE)
    /\ pc' = [pc EXCEPT ![p] = "v_find"]
    /\ UNCHANGED http

\* the documents the filter of find_one matches: same email and purpose, not
\* used, not expired
Unused(email, purpose) ==
    {i \in DOMAIN verification_codes :
        /\ verification_codes[i].email = email
        /\ verification_codes[i].purpose = purpose
        /\ ~verification_codes[i].used
        /\ verification_codes[i].expires_at > now}

\* sort=[("created_at", -1)]: a matching document none is more recent than
MostRecent(ids) ==
    {i \in ids : \A j \in ids :
        verification_codes[j].created_at <= verification_codes[i].created_at}

\* verification_doc = find_one({email, purpose, used: False, expires_at > now},
\* sort created_at descending); no document: invalid, no attempts left
VerifyFind(p) ==
    /\ pc[p] = "v_find"
    /\ LET ids == Unused(req[p].email, req[p].purpose)
           invalid == [valid |-> FALSE, message |-> "Codigo invalido o expirado",
                       attempts_left |-> 0]
       IN  IF ids = {}
           THEN /\ Finish(p, invalid, VerifyResponse(invalid))
                /\ UNCHANGED verification_doc
           ELSE /\ \E i \in MostRecent(ids) :
                      verification_doc' = [verification_doc EXCEPT ![p] =
                                              [id |-> i, doc |-> verification_codes[i]]]
                /\ pc' = [pc EXCEPT ![p] = "v_update"]
                /\ UNCHANGED <<ret, http>>
    /\ UNCHANGED <<store, req, goal_doc, hist, pre, goals0, calls, auth,
                   verification_codes, verified, goal>>

\* the code read is compared with the request's; update_one({"_id"}) marks
\* it used when they are equal, else stores the attempts read plus one, and
\* marks it used from the third incorrect attempt on
VerifyUpdate(p) ==
    /\ pc[p] = "v_update"
    /\ LET id == verification_doc[p].id
           current_attempts == verification_doc[p].doc.attempts + 1
           attempts_left == IF MAX_CODE_ATTEMPTS - current_attempts > 0
                            THEN MAX_CODE_ATTEMPTS - current_attempts ELSE 0
           result ==
               IF verification_doc[p].doc.code = req[p].code
               THEN [valid |-> TRUE, message |-> "Codigo verificado exitosamente",
                     attempts_left |-> MAX_CODE_ATTEMPTS]
               ELSE IF current_attempts >= MAX_CODE_ATTEMPTS
               THEN [valid |-> FALSE, message |-> "Maximo de intentos alcanzado",
                     attempts_left |-> 0]
               ELSE [valid |-> FALSE, message |-> "Codigo incorrecto",
                     attempts_left |-> attempts_left]
       IN  /\ verification_codes' =
                  IF verification_doc[p].doc.code = req[p].code
                  THEN [verification_codes EXCEPT ![id].used = TRUE]
                  ELSE IF current_attempts >= MAX_CODE_ATTEMPTS
                  THEN [verification_codes EXCEPT ![id].used = TRUE,
                                                  ![id].attempts = current_attempts]
                  ELSE [verification_codes EXCEPT ![id].attempts = current_attempts]
           /\ verified' =
                  IF result.valid THEN [verified EXCEPT ![id].valid = @ + 1]
                  ELSE [verified EXCEPT ![id].wrong = @ + 1]
           /\ Finish(p, result, VerifyResponse(result))
    /\ UNCHANGED <<store, req, goal_doc, hist, pre, goals0, calls, auth,
                   verification_doc, goal>>

(***************************************************************************)
(* SpecMail: codes are generated and the workers verify them concurrently  *)
(***************************************************************************)
NextMail ==
    \/ \E e \in {"e1"}, u \in Purposes, c \in Codes : GenerateVerificationCode(e, u, c)
    \/ \E p \in Procs :
          \/ calls < MaxVerifies /\ \E e \in {"e1"}, u \in Purposes, c \in Codes :
                                      VerifyCodeCall(p, e, c, u)
          \/ VerifyFind(p)
          \/ VerifyUpdate(p)
          \/ Return(p)
    \/ \E dt \in {CODE_MINUTES} : Tick(dt)

SpecMail == InitAuth /\ [][NextMail]_vars

(***************************************************************************)
(* Properties                                                              *)
(***************************************************************************)
WithinBounds(d) ==
    /\ 0 <= d.current_amount
    /\ d.current_amount <= d.target_amount
    /\ RatGeq(d.progress_percentage, 0)
    /\ RatLeq(d.progress_percentage, 100)

AllWithinBounds(gs) == \A g \in DOMAIN gs : WithinBounds(gs[g])

\* the call of worker p is a contribute call that has returned
ContributeDone(p) == pc[p] = "done" /\ IsContribute(req[p])

\* the goals of `gs` the selector of request r resolves to
Selected(gs, r) ==
    IF r.op = "contribute_to_goal"
    THEN {g \in DOMAIN gs : g = r.goal_id /\ gs[g].user_id = r.user_id}
    ELSE {g \in DOMAIN gs : gs[g].user_id = r.user_id /\ gs[g].is_main}

\* C1: at rest, every stored goal has 0 <= current_amount <= target_amount and
\* 0 <= progress_percentage <= 100: a create_goal, update_goal or contribute
\* call that ran to completion on goals within these bounds leaves them so.
C1_GoalsStayWithinBounds ==
    \A p \in Procs :
        (/\ pc[p] = "done"
         /\ req[p].op \in {"create_goal", "update_goal", "contribute_to_goal",
                           "contribute_to_main_goal"}
         /\ AllWithinBounds(pre.goals))
        => AllWithinBounds(goals)

\* C2: under any interleaving of concurrent contribute calls on a goal, the
\* stored current_amount never exceeds the target_amount.
C2_NeverAboveTarget ==
    \A g \in DOMAIN goals : goals[g].current_amount <= goals[g].target_amount

\* two calls wrote after reading the same current_amount
C2_Witness ==
    \E p, q \in Procs :
        /\ p # q
        /\ hist[p].wrote /\ hist[q].wrote
        /\ goal_doc[p].doc.current_amount = goal_doc[q].doc.current_amount

RECURSIVE SumAmounts(_)
SumAmounts(ps) ==
    IF ps = {} THEN 0
    ELSE LET p == CHOOSE x \in ps : TRUE
         IN  req[p].contribution.amount + SumAmounts(ps \ {p})

\* C3: when the concurrent contribute calls' amounts sum to exactly the goal's
\* remaining amount, then once all have finished the goal has
\* current_amount = target_amount and status completed.
C3_ExactSumCompletes ==
    (/\ \A p \in Procs : pc[p] = "done"
     /\ SumAmounts(Procs) = RemainingAmount(goals0[1]))
    => /\ goals[1].current_amount = goals[1].target_amount
       /\ goals[1].status = "completed"

\* C4: a contribute call's goal write takes effect only if the stored
\* current_amount still equals the value the call read at lookup.
C4_WriteOnlyIfUnchanged ==
    [][\A p \in Procs :
          (pc[p] = "write" /\ pc'[p] = "ledger")
          => goals[goal_doc[p].id].current_amount = goal_doc[p].doc.current_amount]_vars

\* C5: a contribute call with amount equal to the remaining amount (> 0) of
\* the selected goal, run without interleaving, succeeds and leaves the goal
\* with current_amount = target_amount, progress 100 and status completed.
C5_ExactRemainingCompletes ==
    \A p \in Procs :
        (/\ ContributeDone(p)
         /\ goal_doc[p] # None
         /\ RemainingAmount(pre.goals[goal_doc[p].id]) > 0
         /\ req[p].contribution.amount = RemainingAmount(pre.goals[goal_doc[p].id]))
        => /\ ret[p] # None
           /\ ret[p].doc = goals[goal_doc[p].id]
           /\ goals[goal_doc[p].id].current_amount = goals[goal_doc[p].id].target_amount
           /\ goals[goal_doc[p].id].progress_percentage = <<100, 1>>
           /\ goals[goal_doc[p].id].status = "completed"

\* an exact-remaining contribution to a goal that was not completed has returned
C5_Witness ==
    \E p \in Procs :
        /\ ContributeDone(p)
        /\ goal_doc[p] # None
        /\ pre.goals[goal_doc[p].id].status = "failed"
        /\ RemainingAmount(pre.goals[goal_doc[p].id]) > 0
        /\ req[p].contribution.amount = RemainingAmount(pre.goals[goal_doc[p].id])
        /\ goals[goal_doc[p].id].status = "completed"

\* C6: a contribute call whose amount exceeds the remaining amount of the
\* selected goal is rejected and leaves the goals and the ledger unchanged.
C6_ExceedingLeavesAllUnchanged ==
    \A p \in Procs :
        (/\ ContributeDone(p)
         /\ goal_doc[p] # None
         /\ req[p].contribution.amount > RemainingAmount(pre.goals[goal_doc[p].id]))
        => /\ ret[p] = None
           /\ goals = pre.goals
           /\ ledger = pre.ledger

\* an exceeding contribution to a goal with room left has returned, another
\* goal being stored
C6_Witness ==
    \E p \in Procs :
        /\ ContributeDone(p)
        /\ goal_doc[p] # None
        /\ RemainingAmount(pre.goals[goal_doc[p].id]) > 0
        /\ req[p].contribution.amount > RemainingAmount(pre.goals[goal_doc[p].id])
        /\ req[p].contribution.amount <= MaxAmount
        /\ Cardinality(DOMAIN goals) = 2

\* C7: a contribute call whose amount exceeds the remaining capacity returns a
\* rejection that carries the attempted and the remaining amount, distinct
\* from the goal-not-found outcome and from an internal error.
C7_ExceedingReportsAmounts ==
    \A p \in Procs :
        (/\ ContributeDone(p)
         /\ goal_doc[p] # None
         /\ req[p].contribution.amount > RemainingAmount(pre.goals[goal_doc[p].id]))
        => /\ http[p].status \notin {404, 500}
           /\ http[p].detail = [attempted |-> req[p].contribution.amount,
                                remaining |-> RemainingAmount(pre.goals[goal_doc[p].id])]

\* C8: a contribute call whose selector matches no goal of the calling user
\* reports not found (returns None), modifies no goal and inserts no entry.
C8_NotFoundNoEffect ==
    \A p \in Procs :
        (ContributeDone(p) /\ Selected(pre.goals, req[p]) = {})
        => /\ ret[p] = None
           /\ ~hist[p].wrote
           /\ hist[p].inserted = <<>>
           /\ goals = pre.goals
           /\ ledger = pre.ledger

\* a call by id on a goal that exists but belongs to another user has returned
C8_Witness ==
    \E p \in Procs :
        /\ ContributeDone(p)
        /\ req[p].op = "contribute_to_goal"
        /\ req[p].goal_id \in DOMAIN pre.goals
        /\ pre.goals[req[p].goal_id].user_id # req[p].user_id
        /\ req[p].contribution.amount <= RemainingAmount(pre.goals[req[p].goal_id])

\* the request of worker p carries a contribution body
HasContribution(p) == req[p] # None /\ "contribution" \in DOMAIN req[p]

\* the body is one the spec's ValidationError covers
BadBody(c) ==
    \/ c.amount <= 0
    \/ c.amount > MAX_CONTRIBUTION
    \/ ("contribution_date" \in DOMAIN c /\ c.contribution_date > Today)

\* C9: a contribution request with amount <= 0, amount > 1,000,000,000 or a
\* contribution_date after today is rejected at validation: no goal lookup,
\* no goal write and no ledger insert is performed for it.
C9_InvalidRejectedBeforeLookup ==
    \A p \in Procs :
        (HasContribution(p) /\ BadBody(req[p].contribution))
        => /\ pc[p] = "done"
           /\ http[p].status = 422
           /\ hist[p] = NoHist
           /\ goals = pre.goals
           /\ ledger = pre.ledger

\* a request above the ceiling whose selector would have matched a goal with
\* room has been rejected
C9_Witness ==
    \E p \in Procs :
        /\ pc[p] = "done"
        /\ HasContribution(p)
        /\ req[p].contribution.amount > MAX_CONTRIBUTION
        /\ http[p].status = 422
        /\ \E g \in DOMAIN goals : goals[g].user_id = req[p].user_id

\* C10: every contribute call that succeeds while the ledger accepts inserts
\* has added exactly one ledger entry, of type goal_contribution, with the
\* caller's user_id, the id of the goal that was updated, the requested amount
\* and the goal_name and category read from the goal at lookup.
C10_OneEntryPerSuccess ==
    \A p \in Procs :
        (ContributeDone(p) /\ ret[p] # None /\ ~hist[p].insert_failed)
        => /\ Len(hist[p].inserted) = 1
           /\ BagIn(hist[p].inserted[1], ledger)
           /\ hist[p].inserted[1].type = "goal_contribution"
           /\ hist[p].inserted[1].user_id = req[p].user_id
           /\ hist[p].inserted[1].goal_id = ret[p].id
           /\ hist[p].inserted[1].amount = req[p].contribution.amount
           /\ hist[p].inserted[1].goal_name = goal_doc[p].doc.name
           /\ hist[p].inserted[1].category = goal_doc[p].doc.category

\* a contribution succeeded on a goal renamed between its lookup and its insert
C10_Witness ==
    \E p \in Procs :
        /\ ContributeDone(p) /\ ret[p] # None /\ ~hist[p].insert_failed
        /\ hist[p].inserted[1].goal_name # ret[p].doc.name
        /\ hist[p].inserted[1].amount = 1

\* C11: when the ledger insert of a contribute call fails, the call still
\* returns the updated goal, and the goal keeps the current_amount,
\* progress_percentage and status the call persisted; nothing is inserted.
C11_LedgerFailureKeepsUpdate ==
    \A p \in Procs :
        (ContributeDone(p) /\ hist[p].insert_failed)
        => LET g == goal_doc[p].id
               before == pre.goals[g]
               amount == req[p].contribution.amount
           IN  /\ ret[p] # None
               /\ http[p].status = 200
               /\ ret[p].doc = goals[g]
               /\ goals[g].current_amount = before.current_amount + amount
               /\ goals[g].progress_percentage =
                      MinHundred(Percentage(before.current_amount + amount,
                                            before.target_amount))
               /\ goals[g].status = IF before.current_amount + amount >= before.target_amount
                                    THEN "completed" ELSE before.status
               /\ ledger = pre.ledger

\* a contribution that completed an active goal returned after its insert failed
C11_Witness ==
    \E p \in Procs :
        /\ ContributeDone(p) /\ hist[p].insert_failed
        /\ pre.goals[goal_doc[p].id].status = "active"
        /\ goals[goal_doc[p].id].status = "completed"
        /\ ret[p] # None

\* C12: a contribute call inserts its ledger entry only after its goal update
\* was persisted and before it returns; a call that was rejected, or whose
\* update matched no document, inserts nothing.
C12_InsertAfterWriteBeforeReturn ==
    [][\A p \in Procs :
          /\ (hist'[p].inserted # hist[p].inserted /\ hist'[p].inserted # <<>>)
                => (hist[p].wrote /\ pc[p] # "done" /\ pc'[p] # "done")
          /\ (pc'[p] = "done" /\ IsContribute(req'[p]) /\ ~hist'[p].wrote)
                => hist'[p].inserted = <<>>
          /\ Len(hist'[p].inserted) <= 1]_vars

\* a call whose goal was deleted after its lookup has returned: its write
\* matched no document although the amount fitted, and nothing was inserted
C12_Witness ==
    \E p, q \in Procs :
        /\ pc[p] = "done" /\ req[p].op = "delete_goal" /\ ret[p].deleted
        /\ ContributeDone(q) /\ goal_doc[q] # None /\ ~hist[q].wrote
        /\ ~ExceedsRemaining(goal_doc[q].doc, req[q].contribution.amount)
        /\ hist[q].inserted = <<>>

\* the goals of user uid stored in gs with is_main = true
MainGoals(gs, uid) == {g \in DOMAIN gs : gs[g].user_id = uid /\ gs[g].is_main}

\* C13: after a set_goal_as_main(user, B) that succeeded without interleaving,
\* B is the user's only main goal, and a following contribution with the main
\* selector adds to B and leaves every other goal as it was.
C13_SetMainRedirectsMainSelector ==
    (pc[1] = "done" /\ req[1].op = "set_goal_as_main" /\ http[1].status = 200)
    => /\ MainGoals(goals, req[1].user_id) = {req[1].goal_id}
       /\ (/\ ContributeDone(2)
            /\ req[2].user_id = req[1].user_id
            /\ req[2].contribution.amount <= RemainingAmount(pre.goals[req[1].goal_id]))
           => /\ ret[2] # None
              /\ ret[2].id = req[1].goal_id
              /\ goals[req[1].goal_id].current_amount =
                     pre.goals[req[1].goal_id].current_amount + req[2].contribution.amount
              /\ \A g \in DOMAIN goals \ {req[1].goal_id} : goals[g] = pre.goals[g]

\* goal 1 was main; goal 2 was set as main; the contribution went to goal 2
C13_Witness ==
    /\ pc[1] = "done" /\ req[1].op = "set_goal_as_main" /\ http[1].status = 200
    /\ req[1].goal_id = 2
    /\ goals0[1].is_main /\ goals0[1].user_id = req[1].user_id
    /\ ContributeDone(2) /\ req[2].user_id = req[1].user_id
    /\ ret[2] # None /\ ret[2].id = 2
    /\ goals[1].current_amount = goals0[1].current_amount

\* C14: once all concurrent set_goal_as_main calls of one user, on goals the
\* user owns, have completed, exactly one of the user's goals is main.
C14_ExactlyOneMainAfterSetMain ==
    (/\ \A p \in Procs : pc[p] = "done" /\ http[p].status = 200
     /\ \A g \in DOMAIN goals0 : goals0[g].user_id = "u1")
    => Cardinality(MainGoals(goals, "u1")) = 1

\* C15: a create_goal, update_goal or set_goal_as_main call that ran to
\* completion on a database with at most one main goal per user leaves at
\* most one main goal per user.
C15_AtMostOneMainPerUser ==
    \A p \in Procs :
        (/\ pc[p] = "done"
         /\ req[p].op \in {"create_goal", "update_goal", "set_goal_as_main"}
         /\ \A u \in Users : Cardinality(MainGoals(pre.goals, u)) <= 1)
        => \A u \in Users : Cardinality(MainGoals(goals, u)) <= 1

\* C16: once a contribute call has succeeded and no call is in progress, the
\* goal's stored progress_percentage is min(current_amount / target_amount *
\* 100, 100) of the amounts stored in the same document, also when an
\* update_goal that changes target_amount ran concurrently.
C16_ProgressMatchesStoredAmounts ==
    \A p \in Procs :
        (/\ ContributeDone(p) /\ ret[p] # None
         /\ \A q \in Procs : pc[q] \in {"idle", "done"}
         /\ ret[p].id \in DOMAIN goals)
        => goals[ret[p].id].progress_percentage =
              MinHundred(Percentage(goals[ret[p].id].current_amount,
                                    goals[ret[p].id].target_amount))

\* C17: a contribute call that succeeds without interleaving returns the goal
\* with current_amount = the amount before the call + the contribution, and a
\* get_goal_by_id issued right after it returns the same current_amount.
C17_ReadAfterContribution ==
    (ContributeDone(1) /\ ret[1] # None)
    => /\ ret[1].doc.current_amount =
              goals0[ret[1].id].current_amount + req[1].contribution.amount
       /\ (/\ pc[2] = "done" /\ req[2].op = "get_goal_by_id"
            /\ req[2].goal_id = ret[1].id /\ req[2].user_id = req[1].user_id)
           => /\ ret[2] # None
              /\ http[2].status = 200
              /\ ret[2].doc.current_amount = ret[1].doc.current_amount

\* a contribution to a goal holding an amount succeeded and was read back
C17_Witness ==
    /\ ContributeDone(1) /\ ret[1] # None
    /\ goals0[ret[1].id].current_amount > 0
    /\ pc[2] = "done" /\ req[2].op = "get_goal_by_id"
    /\ req[2].goal_id = ret[1].id /\ req[2].user_id = req[1].user_id
    /\ ret[2] # None
    /\ ret[2].doc.current_amount > goals0[ret[1].id].current_amount

\* C18: a contribute call whose goal stopped matching (id, user) between its
\* lookup and its write reports an error distinct from goal-not-found,
\* inserts no ledger entry and does not re-create the goal.
C18_VanishedGoalReportsConcurrentModification ==
    \A p \in Procs :
        (/\ ContributeDone(p)
         /\ goal_doc[p] # None
         /\ ~ExceedsRemaining(goal_doc[p].doc, req[p].contribution.amount)
         /\ ~hist[p].wrote)
        => /\ http[p] # ContributeResponse(None)
           /\ http[p].status # 404
           /\ hist[p].inserted = <<>>
           /\ goal_doc[p].id \notin DOMAIN goals

\* C19: an active account is locked, for LOCK_MINUTES, no later than after
\* MAX_FAILED_ATTEMPTS failed password attempts since its last successful
\* login or lock expiry, under any interleaving of the login calls.
C19_LockedAfterFiveFailures ==
    \A e \in DOMAIN users :
        (users[e].is_active /\ failures[e] >= MAX_FAILED_ATTEMPTS)
        => /\ "locked_until" \in DOMAIN users[e]
           /\ users[e].locked_until <= now + LOCK_MINUTES

\* C20: a contribute call changes the status of the selected goal only from
\* active to completed; failed, archived and completed are kept.
C20_OnlyActiveToCompleted ==
    \A p \in Procs :
        (ContributeDone(p) /\ goal_doc[p] # None)
        => \/ goals[goal_doc[p].id].status = pre.goals[goal_doc[p].id].status
           \/ /\ pre.goals[goal_doc[p].id].status = "active"
              /\ goals[goal_doc[p].id].status = "completed"

\* C21: update_progress never changes the status of an archived goal, and
\* never sets archived on a goal that had another status; `pre` is the
\* instance as it was when update_progress was called.
C21_ArchivedUntouched ==
    (goal # None /\ pre # None) =>
        ((pre.status = "archived") <=> (goal.status = "archived"))

\* C22: update_progress yields completed when the recomputed progress is at
\* least 100; otherwise failed exactly when the status was active and the
\* target date is before today; otherwise it leaves the status as it was.
C22_StatusCalculator ==
    (goal # None /\ pre # None) =>
        LET full == pre.current_amount * 100 >= 100 * pre.target_amount
        IN  /\ full => goal.status = "completed"
            /\ (~full /\ pre.status = "active" /\ pre.target_date < Today)
                   => goal.status = "failed"
            /\ (~full /\ ~(pre.status = "active" /\ pre.target_date < Today))
                   => goal.status = pre.status

\* update_progress ran on an active goal below its target whose date is today
C22_Witness ==
    /\ goal # None /\ pre # None
    /\ pre.status = "active" /\ pre.target_date = Today
    /\ pre.current_amount < pre.target_amount
    /\ goal.status = "active"

\* every goal stored with progress_percentage 100 has status completed
HundredIsCompleted(gs) ==
    \A g \in DOMAIN gs :
        gs[g].progress_percentage = <<100, 1>> => gs[g].status = "completed"

\* C23: whenever current_amount is set by create_goal, update_goal or a
\* contribute call, progress and status are both re-derived: at rest a goal
\* whose stored progress_percentage is 100 has status completed, unless its
\* status was set explicitly through update_goal.
C23_HundredMeansCompleted ==
    \A p \in Procs :
        (/\ pc[p] = "done"
         /\ req[p].op \in {"create_goal", "update_goal", "contribute_to_goal",
                           "contribute_to_main_goal"}
         /\ ~(req[p].op = "update_goal" /\ "status" \in DOMAIN req[p].data)
         /\ HundredIsCompleted(pre.goals))
        => HundredIsCompleted(goals)

\* the goals of user uid stored in gs
GoalsOf(gs, uid) == {g \in DOMAIN gs : gs[g].user_id = uid}

\* C24: average_progress is the sum of the progress of the user's goals of
\* every status divided by the number of the user's goals of every status,
\* archived included; hence it lies between 0 and 100.
C24_AverageOverAllGoals ==
    \A p \in Procs :
        (pc[p] = "done" /\ req[p].op = "get_goal_stats")
        => LET mine == GoalsOf(goals, req[p].user_id)
           IN  /\ mine # {} =>
                      ret[p].average_progress =
                          RatOver(SumProgress(goals, mine), Cardinality(mine))
               /\ RatGeq(ret[p].average_progress, 0)
               /\ RatLeq(ret[p].average_progress, 100)

\* C25: under any interleaving of concurrent contribute calls on a goal, the
\* stored current_amount never decreases from one state to the next.
C25_CurrentAmountNeverDecreases ==
    [][\A g \in DOMAIN goals :
          g \in DOMAIN goals' => goals'[g].current_amount >= goals[g].current_amount]_vars

\* the amounts of the entries es, each counted as often as it is in the bag b
RECURSIVE SumEntries(_, _)
SumEntries(es, b) ==
    IF es = {} THEN 0
    ELSE LET e == CHOOSE x \in es : TRUE
         IN  e.amount * CopiesIn(e, b) + SumEntries(es \ {e}, b)

\* the sum of the goal_contribution entries of the ledger b for goal gid
Contributed(b, gid) ==
    SumEntries({e \in BagToSet(b) : e.type = "goal_contribution" /\ e.goal_id = gid}, b)

\* C26: for a goal changed only by contribute calls, the ledger insert never
\* failing, whenever no contribute call is in progress current_amount equals
\* the initial current_amount plus the sum of the amounts of the ledger's
\* goal_contribution entries for the goal.
C26_LedgerAccountsForAmount ==
    (\A p \in Procs : pc[p] \in {"idle", "done"} /\ ~hist[p].insert_failed)
    => \A g \in DOMAIN goals :
           goals[g].current_amount = goals0[g].current_amount + Contributed(ledger, g)

\* C27: a contribute call that reports failure (returns no goal) has changed
\* no goal and inserted no ledger entry: a goal deleted after the update was
\* persisted does not turn an applied contribution into a reported failure.
C27_FailureMeansNoEffect ==
    \A p \in Procs :
        (ContributeDone(p) /\ ret[p] = None)
        => /\ ~hist[p].wrote
           /\ hist[p].inserted = <<>>

\* C28: no contribute, update_goal, delete_goal or set-main call made with
\* user id u changes or deletes a goal whose user_id differs from u, and
\* every ledger entry a contribute call inserts carries user_id u and the id
\* of a goal owned by u; `pre` holds the collections as the call found them.
C28_OnlyOwnGoalsTouched ==
    \A p \in Procs :
        (req[p] # None /\ pre # None)
        => /\ \A g \in DOMAIN pre.goals :
                  pre.goals[g].user_id # req[p].user_id
                  => (g \in DOMAIN goals /\ goals[g] = pre.goals[g])
           /\ \A k \in 1..Len(hist[p].inserted) :
                  /\ hist[p].inserted[k].user_id = req[p].user_id
                  /\ hist[p].inserted[k].goal_id \in DOMAIN pre.goals
                  /\ pre.goals[hist[p].inserted[k].goal_id].user_id = req[p].user_id

\* a delete_goal call of one user on the id of another user's goal has
\* returned, the goal being stored as before
C28_Witness ==
    \E p \in Procs :
        /\ pc[p] = "done"
        /\ req[p].op = "delete_goal"
        /\ req[p].goal_id \in DOMAIN pre.goals
        /\ pre.goals[req[p].goal_id].user_id # req[p].user_id
        /\ req[p].goal_id \in DOMAIN goals
        /\ goals[req[p].goal_id] = pre.goals[req[p].goal_id]

\* C29: a set-main call whose target id matches no goal of the user reports
\* an error, yet its clear step has set is_main = false on every goal of the
\* user and is not undone: the user has no main goal, and a following
\* contribute call with the main selector finds no goal.
C29_FailedSetMainClearsMain ==
    (/\ pc[1] = "done" /\ req[1].op = "set_goal_as_main"
     /\ goals0[req[1].goal_id].user_id # req[1].user_id)
    => /\ http[1].status \in {404, 500}
       /\ MainGoals(goals, req[1].user_id) = {}
       /\ \A g \in DOMAIN goals :
              goals0[g].user_id = req[1].user_id
              => goals[g] = [goals0[g] EXCEPT !.is_main = FALSE]
       /\ (ContributeDone(2) /\ req[2].op = "contribute_to_main_goal"
            /\ req[2].user_id = req[1].user_id)
           => /\ ret[2] = None
              /\ hist[2].lookups = 1
              /\ ~hist[2].wrote
              /\ hist[2].inserted = <<>>

\* u1, whose goal 1 was main, asked for goal 2 of u2 as main; u1's next
\* contribution to the main goal found none
C29_Witness ==
    /\ pc[1] = "done" /\ req[1].op = "set_goal_as_main"
    /\ req[1].user_id = "u1" /\ req[1].goal_id = 2 /\ goals0[2].user_id = "u2"
    /\ goals0[1].is_main /\ ~goals[1].is_main
    /\ ContributeDone(2) /\ req[2].op = "contribute_to_main_goal"
    /\ req[2].user_id = "u1" /\ ret[2] = None

\* C30: a verification code validates at most one verify_code call, and none
\* once 3 incorrect attempts were recorded against it, under any interleaving
\* of verify_code calls: a call is validated by a document only if that
\* document validated no call before and fewer than 3 incorrect attempts.
C30_CodeValidatesOnce ==
    [][\A i \in DOMAIN verified :
          verified'[i].valid > verified[i].valid
          => (verified[i].valid = 0 /\ verified[i].wrong < MAX_CODE_ATTEMPTS)]_vars

====
